---- MODULE Spec2Model ----
(***************************************************************************)
(* CryptocurrencyEngine.Run (go/engine/cryptocurrency.go): registration of *)
(* a cryptocurrency address on the user's sigchain.  Run is modelled step  *)
(* by step, one action per blocking call, so that several Runs interleave. *)
(* The collaborators of Run (sigchain guard, LoadMe, lease service, key    *)
(* ring, claim construction, chain store behind API.Post) are modelled     *)
(* from the specification.                                                 *)
(***************************************************************************)
EXTENDS Integers, Sequences, FiniteSets, TLC

(* ---------------------------- bounds ---------------------------------- *)
MaxLinks == 2
MaxLeases == 1

(* Two engines may run at a time, in the same process or in two.          *)
Runs == {1, 2}
Procs == {1, 2}

(* The first engine is in process 1, the second one in either process.     *)
ProcsOf(r) == IF r = 1 THEN {1} ELSE Procs

(* ------------------------- program constants -------------------------- *)
KeybaseSignatureV1 == 1
KeybaseSignatureV2 == 2
LinkTypeCryptocurrency == "cryptocurrency"
SeqType_PUBLIC == "PUBLIC"

(* ------------------------------ inputs -------------------------------- *)
Addresses == {"btcA", "zecA", "bad"}
WantedFamilies == {"", "bitcoin"}
SigVersions == {0, 1, 2, 3}

Args == [Address : Addresses, WantedFamily : WantedFamilies,
         Force : BOOLEAN, SigVersion : SigVersions]

(* The first engine takes any argument; the second one, which runs beside *)
(* it, registers one more bitcoin address, replacing the active one.       *)
ArgsOf(r) ==
    IF r = 1 THEN Args
    ELSE [Address : {"btcB"}, WantedFamily : {""},
          Force : {TRUE}, SigVersion : {1, 2}]

(* ------------------------------ values -------------------------------- *)
NoErr == "nil"
NoRun == 0
NoLink == 0
NoLease == 0
NoRoot == 0
NoKey == "nil"
NoSigID == <<>>
NoLinkID == <<>>
NoType == "none"
EmptyRes == [Family |-> "", Type |-> ""]
NoCalls == [load |-> 0, lease |-> 0, key |-> 0, sign |-> 0, post |-> 0]

(* libkb.CryptocurrencyParseAndCheck: the type of a well-formed address,  *)
(* an error for a malformed one.                                           *)
CryptocurrencyParseAndCheck(address) ==
    CASE address = "btcA" -> [typ |-> "bitcoin", err |-> NoErr]
      [] address = "btcB" -> [typ |-> "bitcoin_multisig", err |-> NoErr]
      [] address = "zecA" -> [typ |-> "zcash.t", err |-> NoErr]
      [] OTHER -> [typ |-> NoType, err |-> "bad address"]

(* CryptocurrencyType.ToCryptocurrencyFamily *)
ToCryptocurrencyFamily(typ) ==
    CASE typ = "bitcoin" -> "bitcoin"
      [] typ = "bitcoin_multisig" -> "bitcoin"
      [] typ = "zcash.t" -> "zcash"
      [] OTHER -> ""

(* ----------------------------- sigchain ------------------------------- *)
(* The link id is the hash of the link's signed content.                  *)
LinkID(inner) == <<inner.seqno, inner.prev, inner.address, inner.revoke>>

(* The sig id names the signature of a link.                               *)
SigIDOf(inner) == <<inner.seqno, inner.address>>

(* User.GetSigChainLastKnownSeqno *)
GetSigChainLastKnownSeqno(me) == Len(me)

(* User.GetSigChainLastKnownID *)
GetSigChainLastKnownID(me) == IF Len(me) = 0 THEN NoLinkID ELSE me[Len(me)].id

(* IdentityTable.ActiveCryptocurrency: the latest link of the family that *)
(* is not revoked, NoLink if there is none.                                *)
ActiveLinks(me, family) ==
    {i \in 1..Len(me) : me[i].family = family /\ ~me[i].revoked}

ActiveCryptocurrency(me, family) ==
    IF ActiveLinks(me, family) = {} THEN NoLink
    ELSE CHOOSE i \in ActiveLinks(me, family) :
             \A j \in ActiveLinks(me, family) : j <= i

(* ChainLink.GetSigID *)
GetSigID(me, link) == IF link \in 1..Len(me) THEN me[link].sigID ELSE NoSigID

VARIABLES chain, leases, guard, pc, proc, arg, res, err, loc, calls

vars == <<chain, leases, guard, pc, proc, arg, res, err, loc, calls>>

NoArg == [Address |-> "", WantedFamily |-> "", Force |-> FALSE, SigVersion |-> 0]

NoInner == [family |-> "", typ |-> NoType, address |-> "", revoke |-> NoSigID,
            merkleRoot |-> NoRoot, seqno |-> 0, prev |-> NoLinkID]

NoOuter == [linkType |-> "", seqno |-> 0, prev |-> NoLinkID,
            hasRevokes |-> FALSE, seqType |-> "", ignoreIfUnsupported |-> FALSE]

NoSig == [version |-> 0, hasOuter |-> FALSE, outer |-> NoOuter, payload |-> NoInner]

NoArgs == <<>>

NoLoc == [typ |-> NoType, family |-> "", me |-> <<>>, loaded |-> FALSE,
          cryptocurrencyLink |-> NoLink, sigIDToRevoke |-> NoSigID,
          lease |-> NoLease, merkleRoot |-> NoRoot, sigKey |-> NoKey,
          sigVersion |-> 0, sigInner |-> NoInner, sig |-> NoSig,
          args |-> NoArgs, accepted |-> FALSE]

Init ==
    /\ chain = <<>>
    /\ leases = <<>>
    /\ guard = [p \in Procs |-> NoRun]
    /\ pc = [r \in Runs |-> "idle"]
    /\ proc = [r \in Runs |-> 1]
    /\ arg = [r \in Runs |-> NoArg]
    /\ res = [r \in Runs |-> EmptyRes]
    /\ err = [r \in Runs |-> NoErr]
    /\ loc = [r \in Runs |-> NoLoc]
    /\ calls = [r \in Runs |-> NoCalls]

(* ----------------------- sigchain guard (per process) ----------------- *)
(* LocalSigchainGuard: an exclusive token, free or held by one Run.       *)
GuardAvailable_NonBlocking(p) == TRUE

GuardAvailable(p) == guard[p] = NoRun

GuardSet(p, r) == [guard EXCEPT ![p] = r]

GuardClear(p, r) == [guard EXCEPT ![p] = NoRun]

(* ------------------------------ helpers ------------------------------- *)
Fail(r, e) ==
    /\ err' = [err EXCEPT ![r] = e]
    /\ pc' = [pc EXCEPT ![r] = "ret"]

Called(r, what) == calls' = [calls EXCEPT ![r][what] = @ + 1]

(* NewCryptocurrencyEngine: a fresh engine holding its argument.           *)
NewCryptocurrencyEngine(r) ==
    /\ pc[r] \in {"idle", "done"}
    /\ \E p \in ProcsOf(r), a \in ArgsOf(r) :
         /\ proc' = [proc EXCEPT ![r] = p]
         /\ arg' = [arg EXCEPT ![r] = a]
    /\ pc' = [pc EXCEPT ![r] = "new"]
    /\ UNCHANGED <<chain, leases, guard, res, err, loc, calls>>

FamilyMismatch_NoEmptyCheck(wanted, family) == wanted # family

(* Run, line 62: a wanted family that is given and differs.                *)
FamilyMismatch(wanted, family) == Len(wanted) > 0 /\ wanted # family

(* Run, lines 48-64: set the guard, parse the address, check the family.   *)
RunStart(r) ==
    /\ pc[r] = "new"
    /\ GuardAvailable(proc[r])
    /\ guard' = GuardSet(proc[r], r)
    /\ LET parsed == CryptocurrencyParseAndCheck(arg[r].Address)
           family == ToCryptocurrencyFamily(parsed.typ)
       IN IF parsed.err # NoErr
          THEN Fail(r, "InvalidAddressError") /\ UNCHANGED loc
          ELSE /\ loc' = [loc EXCEPT ![r].typ = parsed.typ, ![r].family = family]
               /\ IF FamilyMismatch(arg[r].WantedFamily, family)
                  THEN Fail(r, "InvalidAddressError")
                  ELSE pc' = [pc EXCEPT ![r] = "load"] /\ UNCHANGED err
    /\ UNCHANGED <<chain, leases, proc, arg, res, calls>>

ExistsCheck_Off(link, force) == FALSE

(* Run, line 72: an active claim and no Force.                             *)
ExistsCheck(link, force) == link # NoLink /\ ~force

LoadError_Retry(r, e) ==
    /\ pc' = pc
    /\ UNCHANGED err

(* Run, lines 67-69: the error of LoadMe is returned.                      *)
LoadError(r, e) == Fail(r, e)

(* Run, lines 66-74: load the user, refuse an existing claim unless Force. *)
RunLoadMe(r) ==
    /\ pc[r] = "load"
    /\ Called(r, "load")
    /\ \/ LoadError(r, "LoadUserError") /\ UNCHANGED loc
       \/ LET me == chain
              link == ActiveCryptocurrency(me, ToCryptocurrencyFamily(loc[r].typ))
          IN /\ loc' = [loc EXCEPT ![r].me = me, ![r].loaded = TRUE,
                                   ![r].cryptocurrencyLink = link]
             /\ IF ExistsCheck(link, arg[r].Force)
                THEN Fail(r, "ExistsError")
                ELSE pc' = [pc EXCEPT ![r] = "lease"] /\ UNCHANGED err
    /\ UNCHANGED <<chain, leases, guard, proc, arg, res>>

(* ---------------------------- lease service --------------------------- *)
(* RequestDowngradeLeaseBySigIDs: the service refuses a link that is not   *)
(* an unrevoked link of the chain; otherwise it may grant a fresh lease.   *)
LeaseGrantable(sigID) ==
    /\ Len(leases) < MaxLeases
    /\ \E i \in 1..Len(chain) : chain[i].sigID = sigID /\ ~chain[i].revoked

NewLease(sigID) == [sigID |-> sigID, consumed |-> FALSE]

MerkleRootNow == Len(chain) + 1

NeedsLease_Never(link) == FALSE

NeedsLease_Always(link) == TRUE

(* Run, line 78: a lease is needed when there is a link to revoke.        *)
NeedsLease(link) == link # NoLink

LeaseErrors == {"LeaseUnavailable"}

LeaseError_Swallowed(r, e) ==
    /\ pc' = [pc EXCEPT ![r] = "key"]
    /\ UNCHANGED err

(* Run, lines 81-83: the lease error is returned as it is.                 *)
LeaseError(r, e) == Fail(r, e)

(* Run, lines 75-84: name the link to revoke and request a lease for it.   *)
RunLease(r) ==
    /\ pc[r] = "lease"
    /\ LET link == loc[r].cryptocurrencyLink
           sigIDToRevoke == GetSigID(loc[r].me, link)
       IN IF NeedsLease(link)
          THEN /\ Called(r, "lease")
               /\ \/ /\ LeaseGrantable(sigIDToRevoke)
                     /\ leases' = Append(leases, NewLease(sigIDToRevoke))
                     /\ loc' = [loc EXCEPT ![r].sigIDToRevoke = sigIDToRevoke,
                                           ![r].lease = Len(leases) + 1,
                                           ![r].merkleRoot = MerkleRootNow]
                     /\ pc' = [pc EXCEPT ![r] = "key"]
                     /\ UNCHANGED err
                  \/ /\ \E e \in LeaseErrors : LeaseError(r, e)
                     /\ loc' = [loc EXCEPT ![r].sigIDToRevoke = sigIDToRevoke]
                     /\ UNCHANGED leases
          ELSE /\ pc' = [pc EXCEPT ![r] = "key"]
               /\ UNCHANGED <<leases, err, calls, loc>>
    /\ UNCHANGED <<chain, guard, proc, arg, res>>

EffectiveSigVersion_NoDefault(v) == v

EffectiveSigVersion_DefaultsAll(v) ==
    IF v = KeybaseSignatureV1 THEN v ELSE KeybaseSignatureV2

(* Run, lines 98-102: version 2 is the default.                            *)
EffectiveSigVersion(v) == IF v = 0 THEN KeybaseSignatureV2 ELSE v

(* User.CryptocurrencySig: the claim built on the loaded chain.            *)
CryptocurrencySig(me, address, typ, sigIDToRevoke, merkleRoot) ==
    [family |-> ToCryptocurrencyFamily(typ), typ |-> typ, address |-> address,
     revoke |-> sigIDToRevoke, merkleRoot |-> merkleRoot,
     seqno |-> GetSigChainLastKnownSeqno(me) + 1,
     prev |-> GetSigChainLastKnownID(me)]

(* GenericKey.SignToString: a signature over the payload alone.            *)
SignToString(sigInner) ==
    [version |-> KeybaseSignatureV1, hasOuter |-> FALSE, outer |-> NoOuter,
     payload |-> sigInner]

(* libkb.MakeSigchainV2OuterSig: a signature over envelope and payload.    *)
MakeSigchainV2OuterSig(linkType, seqno, sigInner, prev, hasRevokes, seqType, ignore) ==
    [version |-> KeybaseSignatureV2, hasOuter |-> TRUE,
     outer |-> [linkType |-> linkType, seqno |-> seqno, prev |-> prev,
                hasRevokes |-> hasRevokes, seqType |-> seqType,
                ignoreIfUnsupported |-> ignore],
     payload |-> sigInner]

HasRevokes_Never(sigIDToRevoke) == FALSE

(* Run, line 127 *)
HasRevokes(sigIDToRevoke) == Len(sigIDToRevoke) > 0

OuterSig_StaleSeqno(me, sigInner, sigIDToRevoke) ==
    MakeSigchainV2OuterSig(LinkTypeCryptocurrency, GetSigChainLastKnownSeqno(me),
                           sigInner, GetSigChainLastKnownID(me),
                           HasRevokes(sigIDToRevoke), SeqType_PUBLIC, FALSE)

(* Run, lines 118-130 *)
OuterSig(me, sigInner, sigIDToRevoke) ==
    LET prevSeqno == GetSigChainLastKnownSeqno(me)
        prevLinkID == GetSigChainLastKnownID(me)
    IN MakeSigchainV2OuterSig(LinkTypeCryptocurrency, prevSeqno + 1, sigInner,
                              prevLinkID, HasRevokes(sigIDToRevoke),
                              SeqType_PUBLIC, FALSE)

(* Run, lines 86-137: fetch and check the device signing key, build the  *)
(* claim and sign it in the chosen version.                                *)
RunSign(r) ==
    /\ pc[r] = "key"
    /\ LET sigVersion == EffectiveSigVersion(arg[r].SigVersion)
           claim == CryptocurrencySig(loc[r].me, arg[r].Address, loc[r].typ,
                                      loc[r].sigIDToRevoke, loc[r].merkleRoot)
           keyed == [loc[r] EXCEPT !.sigKey = "device"]
           built == [keyed EXCEPT !.sigVersion = sigVersion, !.sigInner = claim]
       IN \/ /\ Fail(r, "NoSecretKeyError")
             /\ calls' = [calls EXCEPT ![r].key = @ + 1]
             /\ UNCHANGED loc
          \/ /\ Fail(r, "CheckSecretKeyError")
             /\ calls' = [calls EXCEPT ![r].key = @ + 1]
             /\ loc' = [loc EXCEPT ![r] = keyed]
          \/ /\ Fail(r, "CryptocurrencySigError")
             /\ calls' = [calls EXCEPT ![r].key = @ + 1]
             /\ loc' = [loc EXCEPT ![r] = [keyed EXCEPT !.sigVersion = sigVersion]]
          \/ /\ Fail(r, "MarshalError")
             /\ calls' = [calls EXCEPT ![r].key = @ + 1]
             /\ loc' = [loc EXCEPT ![r] = [keyed EXCEPT !.sigVersion = sigVersion]]
          \/ /\ sigVersion \in {KeybaseSignatureV1, KeybaseSignatureV2}
             /\ Fail(r, "SigningError")
             /\ calls' = [calls EXCEPT ![r].key = @ + 1, ![r].sign = @ + 1]
             /\ loc' = [loc EXCEPT ![r] = built]
          \/ /\ sigVersion \notin {KeybaseSignatureV1, KeybaseSignatureV2}
             /\ Fail(r, "Invalid Signature Version")
             /\ calls' = [calls EXCEPT ![r].key = @ + 1]
             /\ loc' = [loc EXCEPT ![r] = built]
          \/ /\ sigVersion \in {KeybaseSignatureV1, KeybaseSignatureV2}
             /\ calls' = [calls EXCEPT ![r].key = @ + 1, ![r].sign = @ + 1]
             /\ loc' = [loc EXCEPT ![r] =
                          [built EXCEPT !.sig =
                              IF sigVersion = KeybaseSignatureV1
                              THEN SignToString(claim)
                              ELSE OuterSig(loc[r].me, claim, loc[r].sigIDToRevoke)]]
             /\ pc' = [pc EXCEPT ![r] = "post"]
             /\ UNCHANGED err
    /\ UNCHANGED <<chain, leases, guard, proc, arg, res>>

(* Run, lines 139-152: the arguments of the sig/post request.              *)
BaseArgs(sig, kid) ==
    [sig |-> sig, signing_kid |-> kid, is_remote_proof |-> FALSE,
     type |-> "cryptocurrency"]

LeaseArgs(lease) ==
    IF lease # NoLease THEN [downgrade_lease_id |-> lease] ELSE <<>>

InnerArgs_Always(sigVersion, sigInner) == [sig_inner |-> sigInner]

InnerArgs(sigVersion, sigInner) ==
    IF sigVersion = KeybaseSignatureV2 THEN [sig_inner |-> sigInner] ELSE <<>>

PostArgs(sig, kid, lease, sigVersion, sigInner) ==
    BaseArgs(sig, kid) @@ LeaseArgs(lease) @@ InnerArgs(sigVersion, sigInner)

Has(args, field) == field \in DOMAIN args

(* ------------------------------ chain store --------------------------- *)
(* The payload the store reads: sig_inner for an enveloped signature, the  *)
(* signed payload itself otherwise.                                        *)
SubmittedInner(args) ==
    IF args.sig.hasOuter THEN args.sig_inner ELSE args.sig.payload

(* The envelope must agree with the payload it binds.                      *)
EnvelopeOK(args) ==
    args.sig.hasOuter =>
        /\ Has(args, "sig_inner")
        /\ args.sig_inner = args.sig.payload
        /\ args.sig.outer.linkType = LinkTypeCryptocurrency
        /\ args.sig.outer.seqno = args.sig_inner.seqno
        /\ args.sig.outer.prev = args.sig_inner.prev
        /\ args.sig.outer.hasRevokes = (Len(args.sig_inner.revoke) > 0)

SequenceOK_Unchecked(inner) == TRUE

(* The link must be the next one of the chain.                             *)
SequenceOK(inner) ==
    /\ inner.seqno = GetSigChainLastKnownSeqno(chain) + 1
    /\ inner.prev = GetSigChainLastKnownID(chain)

(* A lease that is sent must exist and be unconsumed; a revocation must    *)
(* come with the lease granted for the revoked link.                       *)
LeaseOK(args, inner) ==
    /\ Has(args, "downgrade_lease_id") =>
          /\ args.downgrade_lease_id \in 1..Len(leases)
          /\ ~leases[args.downgrade_lease_id].consumed
    /\ Len(inner.revoke) > 0 =>
          /\ Has(args, "downgrade_lease_id")
          /\ args.downgrade_lease_id \in 1..Len(leases)
          /\ leases[args.downgrade_lease_id].sigID = inner.revoke

StoreAccepts(args) ==
    /\ EnvelopeOK(args)
    /\ SequenceOK(SubmittedInner(args))
    /\ LeaseOK(args, SubmittedInner(args))

NewLink(inner) ==
    [seqno |-> inner.seqno, prev |-> inner.prev, id |-> LinkID(inner),
     sigID |-> SigIDOf(inner), typ |-> inner.typ, family |-> inner.family,
     address |-> inner.address, revokes |-> inner.revoke, revoked |-> FALSE]

Revoke(links, sigID) ==
    [i \in 1..Len(links) |->
        IF links[i].sigID = sigID THEN [links[i] EXCEPT !.revoked = TRUE]
        ELSE links[i]]

StoreAppend(args) ==
    LET inner == SubmittedInner(args)
    IN Append(Revoke(chain, inner.revoke), NewLink(inner))

ConsumeLease_Never(args) == leases

ConsumeLease(args) ==
    IF Has(args, "downgrade_lease_id")
    THEN [leases EXCEPT ![args.downgrade_lease_id].consumed = TRUE]
    ELSE leases

PostError_Retry(r, e) ==
    /\ pc' = pc
    /\ UNCHANGED <<err, chain, leases, res>>

PostError_ConsumesLease(r, e) ==
    /\ Fail(r, e)
    /\ leases' = IF loc[r].lease # NoLease
                 THEN [leases EXCEPT ![loc[r].lease].consumed = TRUE]
                 ELSE leases
    /\ UNCHANGED <<chain, res>>

PostError_SetsResult(r, e) ==
    /\ Fail(r, e)
    /\ res' = [res EXCEPT ![r] = [Family |-> loc[r].family, Type |-> loc[r].typ]]
    /\ UNCHANGED <<chain, leases>>

(* Run, lines 159-161: the error of the post is returned; nothing else is  *)
(* touched.                                                                *)
PostError(r, e) ==
    /\ Fail(r, e)
    /\ UNCHANGED <<chain, leases, res>>

(* Run, lines 139-166: post the signature; on success record the result.   *)
RunPost(r) ==
    /\ pc[r] = "post"
    /\ Called(r, "post")
    /\ LET kid == loc[r].sigKey
           args == PostArgs(loc[r].sig, kid, loc[r].lease, loc[r].sigVersion,
                            loc[r].sigInner)
       IN \/ /\ StoreAccepts(args)
             /\ Len(chain) < MaxLinks
             /\ chain' = StoreAppend(args)
             /\ leases' = ConsumeLease(args)
             /\ loc' = [loc EXCEPT ![r].args = args, ![r].accepted = TRUE]
             /\ res' = [res EXCEPT ![r] = [Family |-> loc[r].family,
                                           Type |-> loc[r].typ]]
             /\ pc' = [pc EXCEPT ![r] = "ret"]
             /\ UNCHANGED err
          \/ /\ ~StoreAccepts(args)
             /\ PostError(r, "SubmissionRejected")
             /\ loc' = [loc EXCEPT ![r].args = args]
          \/ /\ PostError(r, "Unreachable")
             /\ loc' = [loc EXCEPT ![r].args = args]
    /\ UNCHANGED <<guard, proc, arg>>

RunReturn_ClearOnSuccessOnly(r) ==
    /\ pc[r] = "ret"
    /\ guard' = IF err[r] = NoErr THEN GuardClear(proc[r], r) ELSE guard
    /\ pc' = [pc EXCEPT ![r] = "done"]
    /\ arg' = [arg EXCEPT ![r] = NoArg]
    /\ res' = [res EXCEPT ![r] = EmptyRes]
    /\ err' = [err EXCEPT ![r] = NoErr]
    /\ loc' = [loc EXCEPT ![r] = NoLoc]
    /\ calls' = [calls EXCEPT ![r] = NoCalls]
    /\ UNCHANGED <<chain, leases, proc>>

(* Run, line 50: the deferred Clear runs when Run returns.  At "ret" the  *)
(* error and the engine's result are what the caller gets; after it the    *)
(* engine and Run's locals are dropped.                                    *)
RunReturn(r) ==
    /\ pc[r] = "ret"
    /\ guard' = GuardClear(proc[r], r)
    /\ pc' = [pc EXCEPT ![r] = "done"]
    /\ arg' = [arg EXCEPT ![r] = NoArg]
    /\ res' = [res EXCEPT ![r] = EmptyRes]
    /\ err' = [err EXCEPT ![r] = NoErr]
    /\ loc' = [loc EXCEPT ![r] = NoLoc]
    /\ calls' = [calls EXCEPT ![r] = NoCalls]
    /\ UNCHANGED <<chain, leases, proc>>

Next ==
    \E r \in Runs :
        \/ NewCryptocurrencyEngine(r)
        \/ RunStart(r)
        \/ RunLoadMe(r)
        \/ RunLease(r)
        \/ RunSign(r)
        \/ RunPost(r)
        \/ RunReturn(r)

Spec == Init /\ [][Next]_vars

(* ------------------------------ properties ---------------------------- *)
Families == {"bitcoin", "zcash"}

FamilyOf(r) == ToCryptocurrencyFamily(loc[r].typ)

(* C1: the chain store holds at most one active claim per family, and a   *)
(* link of a family that already had a claim revoked that claim in its own *)
(* submission: every earlier link of the family is revoked, and revoked by *)
(* a later link of the same family that names its sig id.                  *)
C1_OneActivePerFamily ==
    /\ \A f \in Families : Cardinality(ActiveLinks(chain, f)) <= 1
    /\ \A i, j \in 1..Len(chain) :
          (i < j /\ chain[i].family = chain[j].family) => chain[i].revoked
    /\ \A i \in 1..Len(chain) :
          chain[i].revoked =>
             \E j \in (i + 1)..Len(chain) :
                /\ chain[j].revokes = chain[i].sigID
                /\ chain[j].family = chain[i].family

C1_Witness ==
    /\ Len(chain) = 2
    /\ chain[1].family = chain[2].family
    /\ chain[1].revoked
    /\ ~chain[2].revoked

(* C2: a Run without Force that loaded a chain with an active claim in the *)
(* address's family is returning ExistsError and has requested no lease,   *)
(* fetched no key, signed nothing and posted nothing.                      *)
C2_ExistsWithoutForce ==
    \A r \in Runs :
        (/\ loc[r].loaded
         /\ ~arg[r].Force
         /\ ActiveCryptocurrency(loc[r].me, FamilyOf(r)) # NoLink)
        => /\ pc[r] = "ret"
           /\ err[r] = "ExistsError"
           /\ calls[r].lease = 0
           /\ calls[r].key = 0
           /\ calls[r].sign = 0
           /\ calls[r].post = 0
           /\ loc[r].lease = NoLease
           /\ loc[r].sig = NoSig

C2_Witness ==
    \E r \in Runs :
        /\ pc[r] = "ret"
        /\ err[r] = "ExistsError"
        /\ ~arg[r].Force
        /\ loc[r].cryptocurrencyLink # NoLink

(* C3: two Runs of one process are never both between the chain load and  *)
(* the end of the post; a Run that loads finds no other Run of its process *)
(* past the guard and reads the chain as the store holds it, so two Runs   *)
(* of a process never hold signatures for the same sequence number.        *)
InCritical(r) == pc[r] \in {"lease", "key", "post"}

PastGuard(r) == pc[r] \in {"load", "lease", "key", "post", "ret"}

Signed(r) == loc[r].sig # NoSig

C3_GuardSerializes ==
    \A r1, r2 \in Runs :
        (r1 # r2 /\ proc[r1] = proc[r2]) =>
            /\ ~(InCritical(r1) /\ InCritical(r2))
            /\ ~(InCritical(r1) /\ PastGuard(r2))
            /\ (Signed(r1) /\ Signed(r2)) =>
                   loc[r1].sigInner.seqno # loc[r2].sigInner.seqno

C3_Witness ==
    \E r1, r2 \in Runs :
        /\ r1 # r2
        /\ proc[r1] = proc[r2]
        /\ pc[r1] = "post"
        /\ pc[r2] = "new"
        /\ Len(chain) = 1

(* C4: the links of the chain store carry the sequence numbers 1, 2, ...  *)
(* in order, and each link's prev is the id of the link before it, empty   *)
(* for the first.                                                          *)
C4_GapFreeChain ==
    \A i \in 1..Len(chain) :
        /\ chain[i].seqno = i
        /\ chain[i].prev = IF i = 1 THEN NoLinkID ELSE chain[i - 1].id

C4_Witness ==
    /\ Len(chain) = 2
    /\ chain[2].prev = chain[1].id
    /\ \E r \in Runs : pc[r] = "ret" /\ err[r] = "SubmissionRejected"

(* C5: a Run that has returned does not hold the guard, whatever it        *)
(* returned.                                                               *)
C5_GuardCleared ==
    \A r \in Runs : pc[r] \in {"idle", "done"} => \A p \in Procs : guard[p] # r

C5_Witness ==
    \E r1, r2 \in Runs :
        /\ pc[r1] = "done"
        /\ pc[r2] = "ret"
        /\ err[r2] # NoErr
        /\ proc[r1] = proc[r2]
        /\ guard[proc[r2]] = r2

(* C6: a Run whose lease request failed is returning the lease service's  *)
(* error, asked for the lease once, fetched no key and posted nothing; the *)
(* failing request leaves chain store and leases as they were.             *)
LeaseFailed(r) == calls[r].lease >= 1 /\ loc[r].lease = NoLease

C6_LeaseFailure ==
    [][\A r \in Runs :
          /\ LeaseFailed(r)' =>
                /\ pc'[r] = "ret"
                /\ err'[r] \in LeaseErrors
                /\ calls'[r].lease = 1
                /\ calls'[r].key = 0
                /\ calls'[r].sign = 0
                /\ calls'[r].post = 0
          /\ (pc[r] = "lease" /\ LeaseFailed(r)') =>
                /\ arg[r].Force
                /\ loc[r].cryptocurrencyLink # NoLink
                /\ chain' = chain
                /\ leases' = leases
                /\ ActiveCryptocurrency(chain', FamilyOf(r)) =
                      ActiveCryptocurrency(chain, FamilyOf(r))]_vars

C6_Witness ==
    \E r \in Runs :
        /\ pc[r] = "ret"
        /\ err[r] \in LeaseErrors
        /\ arg[r].Force
        /\ loc[r].cryptocurrencyLink # NoLink
        /\ ActiveCryptocurrency(chain, FamilyOf(r)) # NoLink

(* C7: in a posted submission downgrade_lease_id is present exactly when  *)
(* an active claim was found and a lease obtained, and sig_inner exactly   *)
(* when the effective signature version is 2.                              *)
Posted(r) == calls[r].post = 1

C7_ConditionalFields ==
    \A r \in Runs :
        Posted(r) =>
            /\ Has(loc[r].args, "downgrade_lease_id") <=>
                  (loc[r].cryptocurrencyLink # NoLink /\ loc[r].lease # NoLease)
            /\ Has(loc[r].args, "downgrade_lease_id") =>
                  loc[r].args.downgrade_lease_id = loc[r].lease
            /\ Has(loc[r].args, "sig_inner") <=>
                  (EffectiveSigVersion(arg[r].SigVersion) = KeybaseSignatureV2)
            /\ Has(loc[r].args, "sig_inner") =>
                  loc[r].args.sig_inner = loc[r].sigInner
            /\ DOMAIN loc[r].args \subseteq
                  {"sig", "signing_kid", "is_remote_proof", "type",
                   "downgrade_lease_id", "sig_inner"}

C7_Witness ==
    \E r1, r2 \in Runs :
        /\ Posted(r1) /\ Posted(r2)
        /\ Has(loc[r1].args, "downgrade_lease_id")
        /\ ~Has(loc[r1].args, "sig_inner")
        /\ ~Has(loc[r2].args, "downgrade_lease_id")
        /\ Has(loc[r2].args, "sig_inner")

(* C8: a version 2 signature has an envelope with link type cryptocurrency, *)
(* seqno one past the loaded chain's last seqno, prev the loaded chain's   *)
(* last link id, hasRevokes true exactly when a link to revoke was found,  *)
(* and seq type public; a version 1 signature has the payload only.        *)
C8_Envelope ==
    \A r \in Runs :
        /\ pc[r] = "post" => Signed(r)
        /\ Signed(r) =>
             LET me == loc[r].me
                 sig == loc[r].sig
             IN IF EffectiveSigVersion(arg[r].SigVersion) = KeybaseSignatureV2
                THEN /\ sig.hasOuter
                     /\ sig.outer.linkType = LinkTypeCryptocurrency
                     /\ sig.outer.seqno = Len(me) + 1
                     /\ sig.outer.prev =
                           IF me = <<>> THEN NoLinkID ELSE me[Len(me)].id
                     /\ sig.outer.hasRevokes = (loc[r].cryptocurrencyLink # NoLink)
                     /\ sig.outer.seqType = SeqType_PUBLIC
                     /\ sig.payload = loc[r].sigInner
                ELSE /\ arg[r].SigVersion = KeybaseSignatureV1
                     /\ ~sig.hasOuter
                     /\ sig.outer = NoOuter
                     /\ sig.payload = loc[r].sigInner

C8_Witness ==
    \E r1, r2 \in Runs :
        /\ Signed(r1) /\ loc[r1].sig.hasOuter
        /\ loc[r1].sig.outer.hasRevokes
        /\ loc[r1].sig.outer.seqno = 2
        /\ Signed(r2) /\ ~loc[r2].sig.hasOuter

(* C9: a Run that replaces an active claim and whose post is accepted     *)
(* asked for one lease, for the link of that claim, before signing, signed *)
(* an envelope with hasRevokes true, sent that lease's id, and leaves the  *)
(* store with its address as the family's active claim and the old link    *)
(* revoked.                                                                *)
PostAccepted(r) == pc[r] = "post" /\ pc'[r] = "ret" /\ err'[r] = NoErr

C9_Replacement ==
    [][\A r \in Runs :
          /\ (pc[r] \in {"key", "post"} /\ loc[r].cryptocurrencyLink # NoLink) =>
                /\ calls[r].lease = 1
                /\ loc[r].lease \in 1..Len(leases)
                /\ leases[loc[r].lease].sigID =
                      loc[r].me[loc[r].cryptocurrencyLink].sigID
          /\ (PostAccepted(r) /\ loc[r].cryptocurrencyLink # NoLink) =>
                LET x == loc[r].cryptocurrencyLink
                    last == Len(chain')
                IN /\ arg[r].Force
                   /\ calls[r].lease = 1
                   /\ loc[r].sig.hasOuter => loc[r].sig.outer.hasRevokes
                   /\ Has(loc'[r].args, "downgrade_lease_id")
                   /\ loc'[r].args.downgrade_lease_id = loc[r].lease
                   /\ leases'[loc[r].lease].consumed
                   /\ last = Len(chain) + 1
                   /\ ActiveCryptocurrency(chain', FamilyOf(r)) = last
                   /\ chain'[last].address = arg[r].Address
                   /\ chain'[last].revokes = chain[x].sigID
                   /\ ~chain[x].revoked
                   /\ chain'[x].revoked
                   /\ res'[r].Family = chain[x].family]_vars

C9_Witness ==
    \E r \in Runs :
        /\ pc[r] = "ret"
        /\ err[r] = NoErr
        /\ loc[r].accepted
        /\ loc[r].cryptocurrencyLink # NoLink
        /\ chain[loc[r].cryptocurrencyLink].revoked
        /\ chain[loc[r].cryptocurrencyLink].address # arg[r].Address

(* C10: a Run that found no active claim in the family requests no lease, *)
(* with or without Force: no lease id is sent and hasRevokes is false; on  *)
(* an empty chain the accepted link has seqno 1 and is the family's active *)
(* claim for the registered address.                                       *)
NoClaimFound(r) ==
    /\ loc[r].loaded
    /\ loc[r].cryptocurrencyLink = NoLink
    /\ pc[r] \in {"key", "post", "ret"}

C10_FirstClaim ==
    [][\A r \in Runs :
          /\ NoClaimFound(r) =>
                /\ ActiveCryptocurrency(loc[r].me, FamilyOf(r)) = NoLink
                /\ calls[r].lease = 0
                /\ loc[r].lease = NoLease
                /\ Signed(r) => ~loc[r].sig.outer.hasRevokes
                /\ Signed(r) => loc[r].sigInner.revoke = NoSigID
                /\ Posted(r) => ~Has(loc[r].args, "downgrade_lease_id")
          /\ (PostAccepted(r) /\ loc[r].me = <<>>) =>
                /\ loc[r].cryptocurrencyLink = NoLink
                /\ Len(chain') = 1
                /\ chain'[1].seqno = 1
                /\ chain'[1].address = arg[r].Address
                /\ ~chain'[1].revoked
                /\ ActiveCryptocurrency(chain', FamilyOf(r)) = 1]_vars

C10_Witness ==
    \E r1, r2 \in Runs :
        /\ pc[r1] = "ret" /\ err[r1] = NoErr /\ loc[r1].me = <<>>
        /\ arg[r1].Force
        /\ chain[1].address = arg[r1].Address
        /\ NoClaimFound(r2) /\ pc[r2] = "post"
        /\ loc[r2].me # <<>>

(* C11: a lease is consumed by at most one accepted submission: consumed  *)
(* leases and accepted revoking links correspond one to one, the accepted  *)
(* submission sent again would fail the store's lease check, no two Runs   *)
(* hold the same lease, a Run about to post holds an unconsumed lease, and *)
(* a Run posts at most once.                                               *)
ConsumedLeases == {l \in 1..Len(leases) : leases[l].consumed}

RevokingLinks == {i \in 1..Len(chain) : chain[i].revokes # NoSigID}

ErrorKind(e) ==
    CASE e = "InvalidAddressError" -> "InvalidClaim"
      [] e = "ExistsError" -> "ClaimAlreadyExists"
      [] e \in LeaseErrors -> "LeaseUnavailable"
      [] e \in {"NoSecretKeyError", "CheckSecretKeyError", "SigningError",
                "CryptocurrencySigError", "MarshalError"} -> "SigningFailed"
      [] e = "SubmissionRejected" -> "SubmissionRejected"
      [] e \in {"LoadUserError", "Unreachable"} -> "Collaborator"
      [] e = "Invalid Signature Version" -> "Generic"
      [] OTHER -> "Unknown"

SpecificKinds ==
    {"InvalidClaim", "ClaimAlreadyExists", "LeaseUnavailable", "SigningFailed",
     "SubmissionRejected", "Collaborator"}

(* C12: every failure of Run returns an error of a specific kind, and a   *)
(* Run that has an error set is returning: no step follows it.             *)
C12_SpecificErrors ==
    \A r \in Runs :
        err[r] # NoErr =>
            /\ pc[r] = "ret"
            /\ ErrorKind(err[r]) \in SpecificKinds

(* The part of C12 the code keeps: no error is dropped.                    *)
C12_NoErrorDropped ==
    \A r \in Runs : err[r] # NoErr => pc[r] = "ret"

(* C13: a Run with SigVersion 0 does what a Run with SigVersion 2 does:   *)
(* it is never refused for its version, it signs the version 2 envelope    *)
(* over the same claim, and it posts the same fields, sig_inner included.  *)
IsV2Sig(r) ==
    LET me == loc[r].me
        claim == [family |-> loc[r].family, typ |-> loc[r].typ,
                  address |-> arg[r].Address, revoke |-> loc[r].sigIDToRevoke,
                  merkleRoot |-> loc[r].merkleRoot, seqno |-> Len(me) + 1,
                  prev |-> IF me = <<>> THEN NoLinkID ELSE me[Len(me)].id]
    IN /\ loc[r].sigInner = claim
       /\ loc[r].sig =
            [version |-> KeybaseSignatureV2, hasOuter |-> TRUE,
             outer |-> [linkType |-> LinkTypeCryptocurrency,
                        seqno |-> Len(me) + 1,
                        prev |-> claim.prev,
                        hasRevokes |-> loc[r].sigIDToRevoke # NoSigID,
                        seqType |-> SeqType_PUBLIC,
                        ignoreIfUnsupported |-> FALSE],
             payload |-> claim]

IsV2Post(r) ==
    loc[r].args =
        [sig |-> loc[r].sig, signing_kid |-> loc[r].sigKey,
         is_remote_proof |-> FALSE, type |-> "cryptocurrency",
         sig_inner |-> loc[r].sigInner] @@
        (IF loc[r].lease # NoLease
         THEN [downgrade_lease_id |-> loc[r].lease] ELSE <<>>)

C13_DefaultIsV2 ==
    \A r \in Runs :
        (pc[r] \in {"post", "ret"} /\ arg[r].SigVersion \in {0, KeybaseSignatureV2}) =>
            /\ err[r] # "Invalid Signature Version"
            /\ loc[r].sigVersion \in {0, KeybaseSignatureV2}
            /\ pc[r] = "post" => Signed(r)
            /\ Signed(r) => (loc[r].sigVersion = KeybaseSignatureV2 /\ IsV2Sig(r))
            /\ Posted(r) => IsV2Post(r)

C13_Witness ==
    \E r \in Runs :
        /\ pc[r] = "ret"
        /\ arg[r].SigVersion = 0
        /\ err[r] = NoErr
        /\ loc[r].accepted
        /\ Has(loc[r].args, "sig_inner")
        /\ loc[r].sig.hasOuter

(* C14: of the submissions built on one chain tip the store accepts at    *)
(* most one; a Run whose loaded chain is no longer the store's gets its    *)
(* post refused, changes nothing, and returns that error after its one     *)
(* signature and one post.                                                 *)
PostStep(r) == pc[r] = "post" /\ calls'[r].post = calls[r].post + 1

StaleTip(r) == Len(loc[r].me) # Len(chain)

C14_StaleSubmissionRejected ==
    [][\A r \in Runs :
          /\ (PostStep(r) /\ StaleTip(r)) =>
                /\ chain' = chain
                /\ leases' = leases
                /\ pc'[r] = "ret"
                /\ err'[r] \in {"SubmissionRejected", "Unreachable"}
                /\ ~loc'[r].accepted
                /\ calls'[r].post = 1
                /\ calls'[r].sign = 1
                /\ loc'[r].sig = loc[r].sig
          /\ (PostStep(r) /\ loc'[r].accepted) =>
                /\ ~StaleTip(r)
                /\ Len(chain') = Len(loc[r].me) + 1
          /\ \A r2 \in Runs :
                (r2 # r /\ loc[r].loaded /\ loc[r2].loaded
                   /\ Len(loc[r].me) = Len(loc[r2].me)) =>
                ~(loc[r].accepted /\ loc[r2].accepted)]_vars

C14_Witness ==
    \E r1, r2 \in Runs :
        /\ proc[r1] # proc[r2]
        /\ pc[r1] = "ret" /\ pc[r2] = "ret"
        /\ loc[r1].loaded /\ loc[r2].loaded
        /\ loc[r1].me = loc[r2].me
        /\ loc[r1].accepted
        /\ err[r2] = "SubmissionRejected"
        /\ calls[r2].post = 1

(* C15: a Run whose address does not parse, or whose non-empty wanted     *)
(* family differs from the address's family, is returning                  *)
(* InvalidAddressError having loaded no chain, requested no lease, fetched *)
(* no key and posted nothing; any other Run, one with an empty wanted      *)
(* family among them, never returns that error.                            *)
Started(r) == pc[r] \in {"load", "lease", "key", "post", "ret"}

BadInput(a) ==
    LET parsed == CryptocurrencyParseAndCheck(a.Address)
    IN \/ parsed.err # NoErr
       \/ /\ a.WantedFamily # ""
          /\ a.WantedFamily # ToCryptocurrencyFamily(parsed.typ)

C15_InvalidInput ==
    \A r \in Runs :
        Started(r) =>
            /\ BadInput(arg[r]) =>
                  /\ pc[r] = "ret"
                  /\ err[r] = "InvalidAddressError"
                  /\ calls[r] = NoCalls
                  /\ ~loc[r].loaded
                  /\ loc[r].lease = NoLease
                  /\ loc[r].sigKey = NoKey
                  /\ loc[r].args = NoArgs
                  /\ res[r] = EmptyRes
            /\ ~BadInput(arg[r]) => err[r] # "InvalidAddressError"

C15_Witness ==
    \E r1, r2 \in Runs :
        /\ pc[r1] = "ret"
        /\ err[r1] = "InvalidAddressError"
        /\ arg[r1].Address = "zecA"
        /\ arg[r1].WantedFamily = "bitcoin"
        /\ Started(r2)
        /\ arg[r2].WantedFamily = ""
        /\ pc[r2] = "post"

(* C15, the parse failure: a malformed address is refused as well.         *)
C15_WitnessParse ==
    \E r \in Runs :
        /\ pc[r] = "ret"
        /\ err[r] = "InvalidAddressError"
        /\ arg[r].Address = "bad"

(* C16: the engine's result is the family and type of the address exactly *)
(* when Run is returning success; before that, and on every failure, it is *)
(* the empty result the engine was made with.                              *)
ResultOf(address) ==
    LET typ == CryptocurrencyParseAndCheck(address).typ
    IN [Family |-> ToCryptocurrencyFamily(typ), Type |-> typ]

Succeeded(r) == pc[r] = "ret" /\ err[r] = NoErr

C16_ResultOnSuccess ==
    \A r \in Runs :
        /\ Succeeded(r) =>
              /\ res[r] = ResultOf(arg[r].Address)
              /\ res[r] # EmptyRes
              /\ loc[r].accepted
        /\ ~Succeeded(r) => res[r] = EmptyRes

C16_Witness ==
    \E r1, r2 \in Runs :
        /\ Succeeded(r1)
        /\ res[r1] = [Family |-> "bitcoin", Type |-> "bitcoin"]
        /\ pc[r2] = "ret"
        /\ err[r2] = "SubmissionRejected"
        /\ res[r2] = EmptyRes

(* C17: a Run loads the chain at most once, requests at most one lease    *)
(* and posts at most once, in that order, and makes no call after a step   *)
(* has failed.                                                             *)
AtMostOnce(c) ==
    /\ c.load <= 1
    /\ c.lease <= 1
    /\ c.key <= 1
    /\ c.sign <= 1
    /\ c.post <= 1
    /\ c.lease = 1 => c.load = 1
    /\ c.key = 1 => c.load = 1
    /\ c.post = 1 => (c.load = 1 /\ c.key = 1 /\ c.sign = 1)

C17_NoRetry ==
    [][\A r \in Runs :
          /\ AtMostOnce(calls[r])
          /\ AtMostOnce(calls'[r])
          /\ calls'[r].load > calls[r].load =>
                (calls[r].lease = 0 /\ calls[r].key = 0 /\ calls[r].post = 0)
          /\ calls'[r].lease > calls[r].lease =>
                (calls[r].key = 0 /\ calls[r].post = 0)
          /\ (calls'[r] # calls[r] /\ pc'[r] # "done") =>
                (err[r] = NoErr /\ pc[r] # "ret")
          /\ (pc[r] # "ret" /\ pc'[r] = "ret" /\ err'[r] # NoErr) =>
                (chain' = chain /\ pc[r] # pc'[r])]_vars

C17_Witness ==
    \E r \in Runs :
        /\ pc[r] = "ret"
        /\ err[r] \in {"SubmissionRejected", "Unreachable"}
        /\ calls[r] = [load |-> 1, lease |-> 1, key |-> 1, sign |-> 1, post |-> 1]

(* C18: a Run that holds a lease and is returning an error leaves the     *)
(* lease granted and unconsumed; the step that failed and the return       *)
(* change neither the chain store nor the leases, and no step of any Run   *)
(* takes a lease back.                                                     *)
FailedWithLease(r) ==
    pc[r] = "ret" /\ err[r] # NoErr /\ loc[r].lease # NoLease

C18_LeaseLeftToExpire ==
    [][\A r \in Runs :
          /\ FailedWithLease(r) =>
                /\ loc[r].lease \in 1..Len(leases)
                /\ ~leases[loc[r].lease].consumed
                /\ leases[loc[r].lease].sigID = loc[r].sigIDToRevoke
                /\ ~loc[r].accepted
          /\ (pc[r] = "ret" /\ pc'[r] = "done") =>
                /\ chain' = chain
                /\ leases' = leases
          /\ (pc[r] # "ret" /\ pc'[r] = "ret" /\ err'[r] # NoErr) =>
                /\ chain' = chain
                /\ leases' = leases
          /\ (pc[r] # pc'[r] /\ ~loc'[r].accepted) => chain' = chain
          /\ Len(leases') >= Len(leases)
          /\ \A l \in 1..Len(leases) :
                /\ leases'[l].sigID = leases[l].sigID
                /\ leases[l].consumed => leases'[l].consumed]_vars

C18_Witness ==
    \E r \in Runs :
        /\ FailedWithLease(r)
        /\ err[r] = "Invalid Signature Version"
        /\ ~leases[loc[r].lease].consumed
        /\ Len(chain) = 1

(* C18, the failed post: the lease outlives a refused submission too.      *)
C18_WitnessPost ==
    \E r \in Runs :
        /\ FailedWithLease(r)
        /\ err[r] \in {"SubmissionRejected", "Unreachable"}
        /\ ~leases[loc[r].lease].consumed

(* C19: in a posted submission the lease id, the link the payload revokes *)
(* and, with an envelope, its hasRevokes flag are all present or all       *)
(* absent, and the lease sent is the one granted for the link the payload  *)
(* revokes, which is the active link the Run found.                        *)
C19_RevocationMarkersAgree ==
    \A r \in Runs :
        Posted(r) =>
            LET args == loc[r].args
                inner == args.sig.payload
                leased == Has(args, "downgrade_lease_id")
            IN /\ leased <=> (inner.revoke # NoSigID)
               /\ args.sig.hasOuter => (args.sig.outer.hasRevokes <=> leased)
               /\ Has(args, "sig_inner") => args.sig_inner = inner
               /\ leased =>
                     /\ args.downgrade_lease_id \in 1..Len(leases)
                     /\ leases[args.downgrade_lease_id].sigID = inner.revoke
                     /\ loc[r].cryptocurrencyLink # NoLink
                     /\ inner.revoke =
                           loc[r].me[loc[r].cryptocurrencyLink].sigID

C19_Witness ==
    \E r1, r2 \in Runs :
        /\ Posted(r1)
        /\ Has(loc[r1].args, "downgrade_lease_id")
        /\ loc[r1].args.sig.hasOuter
        /\ loc[r1].args.sig.outer.hasRevokes
        /\ Posted(r2)
        /\ ~Has(loc[r2].args, "downgrade_lease_id")

(* A started Run whose SigVersion the switch does not know.              *)
UnknownVersion(r) ==
    Started(r) /\ arg[r].SigVersion \notin {0, KeybaseSignatureV1, KeybaseSignatureV2}

(* The errors of the steps that run before the version switch.           *)
EarlierErrors ==
    {"InvalidAddressError", "LoadUserError", "ExistsError", "NoSecretKeyError",
     "CheckSecretKeyError", "CryptocurrencySigError", "MarshalError"}
    \cup LeaseErrors

(* C20 as claimed: a Run whose SigVersion is not 0, 1 or 2 returns the    *)
(* invalid signature version error and has posted nothing.                 *)
C20_Original ==
    \A r \in Runs :
        (UnknownVersion(r) /\ pc[r] = "ret") =>
            /\ err[r] = "Invalid Signature Version"
            /\ calls[r].post = 0

(* C20 as amended: a Run whose SigVersion is not 0, 1 or 2 never signs,   *)
(* never posts and never succeeds; it returns the invalid signature        *)
(* version error once key and claim are there, and the error of the        *)
(* earlier step that failed otherwise.                                     *)
C20_UnknownVersionFails ==
    \A r \in Runs :
        UnknownVersion(r) =>
            /\ pc[r] # "post"
            /\ calls[r].sign = 0
            /\ calls[r].post = 0
            /\ ~Signed(r)
            /\ loc[r].args = NoArgs
            /\ ~loc[r].accepted
            /\ res[r] = EmptyRes
            /\ pc[r] = "ret" =>
                  /\ err[r] # NoErr
                  /\ err[r] \in EarlierErrors \cup {"Invalid Signature Version"}
                  /\ (err[r] = "Invalid Signature Version") <=>
                        (loc[r].sigInner # NoInner)
                  /\ err[r] \in EarlierErrors => loc[r].sigInner = NoInner

C20_Witness ==
    \E r \in Runs :
        /\ UnknownVersion(r)
        /\ pc[r] = "ret"
        /\ err[r] = "Invalid Signature Version"
        /\ arg[r].Force
        /\ loc[r].lease # NoLease
        /\ calls[r].post = 0

====
